---- MODULE Spec2Model ----
(***************************************************************************)
(* Model of the workflow orchestration engine (backend/app/orchestrator,   *)
(* backend/app/nodes): one call of WorkflowEngine.execute_workflow on a     *)
(* workflow definition and an input, stepped from one await to the next.    *)
(***************************************************************************)
EXTENDS Integers, Sequences, FiniteSets, TLC

\* ------------------------------------------------------------------------
\* Bounds of the model.
\* ------------------------------------------------------------------------

\* Longest sequence of method calls made on one WorkflowExecutionState or
\* on the NodeRegistry.
MaxCalls == 4

\* Longest script of a script node, in statements.
MaxScript == 2

\* Largest value of the "retries" key in a node's config.
MaxRetries == 1

\* Longest next_nodes list of a node definition.
MaxNext == 2

\* engine.py:92 sets max_iterations = 1000.  The model scales the cap down
\* to the size of its workflows, so that runs which reach it are explored:
\* chains of max_iterations and of max_iterations + 1 nodes (ChainWorkflows).
max_iterations == 4

\* Node ids of the modelled workflow definitions (strings, as in NodeSchema.id).
NodeIds == {"A", "B", "C"}

\* "no node": Optional[str] = None for on_error, true_branch, false_branch.
NoNode == ""

\* settings.max_workflow_execution_time and the per-node timeout are durations;
\* the model keeps only whether the corresponding timer fires.

VARIABLES
    workflow,        \* the WorkflowResponse given to execute_workflow
    input_data,      \* the input_data argument
    pc,              \* position of the execute_workflow coroutine
    status,          \* state.status
    output_data,     \* state.output_data
    error,           \* state.error
    node_results,    \* state.node_results
    executed_nodes,  \* state.executed_nodes
    pending_nodes,   \* state.pending_nodes
    nodes_map,       \* id -> node instance built by _build_node_graph
    iterations,      \* _execute_nodes' iteration counter
    node_id,         \* id of the node popped by the current iteration
    node_input,      \* input_data passed to the node's run()
    result,          \* BaseNode.run's result dict while it is being built
    attempt,         \* BaseNode.run's attempt counter
    start_time,      \* state.start_time (0: None)
    end_time,        \* state.end_time (0: None)
    clock,           \* datetime.utcnow(), counted in calls that read it
    workers,         \* ids of the nodes whose script runs in a worker thread
    global_state,    \* state.global_state: the keys that hold a value
    validation,      \* what validate_workflow returned
    last_call,       \* the method of the state object called last
    runs,            \* the Execution States of two concurrent runs
    modules,         \* attributes set on the module objects of the sandbox
    registry,        \* NodeRegistry._registry
    reg_call,        \* the NodeRegistry method called last
    stored,          \* the workflows table row of one workflow id
    api_call         \* the request of the workflow API served last

vars == <<workflow, input_data, pc, status, output_data, error, node_results,
          executed_nodes, pending_nodes, nodes_map, iterations, node_id,
          node_input, result, attempt, start_time, end_time, clock, workers,
          global_state, validation, last_call, runs, modules, registry,
          reg_call, stored, api_call>>

\* The state of other runs and the process-wide state.
conc_vars == <<runs, modules>>
reg_vars == <<registry, reg_call>>

\* What a run of execute_workflow never touches.
api_vars ==
    <<validation, last_call, runs, modules, registry, reg_call, stored, api_call>>

\* ------------------------------------------------------------------------
\* Data: the dicts passed from node to node.
\* ------------------------------------------------------------------------

\* A payload's touched is the set of the nodes whose script assigned a key
\* of the dict in place (input_data[...] = ...).
\* Python's None, as a payload (a failed node's result["output"]).
NoneData ==
    [none |-> TRUE, value |-> 0, delay_info |-> NoNode,
     condition_by |-> NoNode, condition_result |-> FALSE, response |-> FALSE,
     python_error |-> "", llm |-> "", touched |-> {}]

\* The dict {"value": v}; v = 0 stands for a dict without the key.
InputDict(v) ==
    [none |-> FALSE, value |-> v, delay_info |-> NoNode,
     condition_by |-> NoNode, condition_result |-> FALSE, response |-> FALSE,
     python_error |-> "", llm |-> "", touched |-> {}]

\* HTTPNode's response envelope: it does not merge the input.
ResponseDict ==
    [none |-> FALSE, value |-> 0, delay_info |-> NoNode,
     condition_by |-> NoNode, condition_result |-> FALSE, response |-> TRUE,
     python_error |-> "", llm |-> "", touched |-> {}]

\* Inputs of the modelled runs: {"value": 25} and {"value": 75}.
InputValues == {25, 75}

\* ------------------------------------------------------------------------
\* ExecutionStatus
\* ------------------------------------------------------------------------
PENDING == "pending"
RUNNING == "running"
COMPLETED == "completed"
FAILED == "failed"
CANCELLED == "cancelled"

\* state.error: None, or one of the three messages execute_workflow builds.
NoError == [kind |-> "none", node |-> NoNode, msg |-> ""]

\* The run-level error messages of execute_workflow (engine.py:73, 78, 128, 131).
NodeFailed(id, msg) == [kind |-> "node_failed", node |-> id, msg |-> msg]
MaxIterationsError == [kind |-> "max_iterations", node |-> NoNode, msg |-> ""]
WorkflowTimeoutError == [kind |-> "timeout", node |-> NoNode, msg |-> ""]

\* ------------------------------------------------------------------------
\* WorkflowExecutionState: start, complete, fail, cancel (state.py:44-65)
\* ------------------------------------------------------------------------
\* The fields these methods assign.
Life ==
    [status |-> status, start_time |-> start_time, end_time |-> end_time,
     output_data |-> output_data, error |-> error]

start(l, now) == [l EXCEPT !.status = RUNNING, !.start_time = now]

complete(l, output, now) ==
    [l EXCEPT !.status = COMPLETED, !.end_time = now, !.output_data = output]

fail(l, err, now) ==
    [l EXCEPT !.status = FAILED, !.end_time = now, !.error = err]

cancel(l, now) == [l EXCEPT !.status = CANCELLED, !.end_time = now]

\* The call stores l; it read the clock once.
SetLife(l) ==
    /\ status' = l.status
    /\ start_time' = l.start_time
    /\ end_time' = l.end_time
    /\ output_data' = l.output_data
    /\ error' = l.error
    /\ clock' = clock + 1

life_vars == <<status, start_time, end_time, output_data, error, clock>>

\* ------------------------------------------------------------------------
\* Node definitions (schemas/node.py) and node configs.
\* ------------------------------------------------------------------------
NodeTypes == {"http_request", "delay", "condition", "python_code", "llm"}

\* A node's config dict.  type: the value of its "type" key ("" when the
\* dict has none); fields: the node type whose required, well-typed fields
\* the dict carries ("" when it carries those of no type); retries: its
\* "retries" key; true_branch / false_branch: ConditionNodeConfig's branches;
\* timeout: whether the dict has a "timeout" key; seconds: the kind of value
\* of a delay config's "seconds" key; method: an http config's "method".
\* "positive" is a number above 0 and below the 60 s that BaseNode.run
\* waits for execute by default, "long" a number of at least 60.
SecondsKinds == {"positive", "long", "zero", "negative", "reference", "text"}

Config(type, fields, retries, true_branch, false_branch) ==
    [type |-> type, fields |-> fields, retries |-> retries,
     true_branch |-> true_branch, false_branch |-> false_branch,
     timeout |-> FALSE, seconds |-> "positive", method |-> "GET"]

NodeSchema(id, type, config, next_nodes, on_error) ==
    [id |-> id, type |-> type, config |-> config,
     next_nodes |-> next_nodes, on_error |-> on_error]

\* HTTPNodeConfig(**config), DelayNodeConfig(**config), ...: pydantic raises
\* unless the dict carries the schema's required fields (extra keys are ignored).
\* DelayNodeConfig's seconds is a float with gt=0: a "{{name}}" string, any
\* other text, zero and a negative number are rejected.
SchemaAccepts(type, config) ==
    /\ config.fields = type
    /\ type = "delay" => config.seconds \in {"positive", "long"}

\* ------------------------------------------------------------------------
\* NodeRegistry
\* ------------------------------------------------------------------------
\* The class-level _registry: every NodeType has a node class.
Registry == NodeTypes

\* NodeRegistry.create_node: TRUE when it raises (unknown type, or the node
\* class's constructor rejects the config).
create_node_raises(type, config) ==
    \/ type \notin Registry
    \/ ~SchemaAccepts(type, config)

\* The instance create_node returns, after set_next_nodes / set_error_handler.
NodeInstance(schema) ==
    [node_id |-> schema.id, type |-> schema.type, config |-> schema.config,
     next_nodes |-> schema.next_nodes, on_error |-> schema.on_error]

\* _build_node_graph: TRUE when some create_node call raises.
build_node_graph_raises(wf) ==
    \E i \in DOMAIN wf.nodes :
        create_node_raises(wf.nodes[i].type, wf.nodes[i].config)

\* _build_node_graph's nodes_map: a later node with the same id overwrites.
build_node_graph(wf) ==
    [id \in {wf.nodes[i].id : i \in DOMAIN wf.nodes} |->
        LET last == CHOOSE i \in DOMAIN wf.nodes :
                        /\ wf.nodes[i].id = id
                        /\ \A j \in DOMAIN wf.nodes :
                               wf.nodes[j].id = id => j <= i
        IN  NodeInstance(wf.nodes[last])]

\* ------------------------------------------------------------------------
\* WorkflowEngine.validate_workflow
\* ------------------------------------------------------------------------
\* What validate_workflow returns: (True, None), or (False, message) with
\* the message's kind and the node and reference it quotes.
Valid == [ok |-> TRUE, kind |-> "none", node |-> NoNode, ref |-> NoNode]
Invalid(kind, node, ref) == [ok |-> FALSE, kind |-> kind, node |-> node, ref |-> ref]

\* engine.py:163: the set of the definition's node ids.
workflow_node_ids(wf) == {wf.nodes[i].id : i \in DOMAIN wf.nodes}

\* A variant of node_references that does not look at on_error.
node_references_no_handler(node, ids) ==
    LET bad == {k \in DOMAIN node.next_nodes : node.next_nodes[k] \notin ids}
    IN  IF bad # {}
        THEN Invalid("dangling_next", node.id,
                     node.next_nodes[CHOOSE k \in bad : \A m \in bad : k <= m])
        ELSE Valid

\* engine.py:169-176, for one node: the first next_nodes entry that is no
\* node id, else an on_error that is set and is no node id.
node_references(node, ids) ==
    LET bad == {k \in DOMAIN node.next_nodes : node.next_nodes[k] \notin ids}
    IN  IF bad # {}
        THEN Invalid("dangling_next", node.id,
                     node.next_nodes[CHOOSE k \in bad : \A m \in bad : k <= m])
        ELSE IF node.on_error # NoNode /\ node.on_error \notin ids
        THEN Invalid("dangling_handler", node.id, node.on_error)
        ELSE Valid

\* engine.py:155-181: the start node, then the references node by node,
\* then the duplicate ids.
validate_workflow(wf) ==
    LET ids == workflow_node_ids(wf)
        bad == {i \in DOMAIN wf.nodes : ~node_references(wf.nodes[i], ids).ok}
    IN  IF wf.start_node \notin ids
        THEN Invalid("start_not_found", NoNode, wf.start_node)
        ELSE IF bad # {}
        THEN node_references(wf.nodes[CHOOSE i \in bad : \A j \in bad : i <= j], ids)
        ELSE IF Cardinality(ids) # Len(wf.nodes)
        THEN Invalid("duplicate", NoNode, NoNode)
        ELSE Valid

\* ------------------------------------------------------------------------
\* WorkflowExecutionState (orchestrator/state.py)
\* ------------------------------------------------------------------------
RECURSIVE add_pending_nodes_unchecked(_, _, _)
\* A variant of add_pending_nodes that does not look at the queue.
add_pending_nodes_unchecked(pending, executed, node_ids) ==
    IF node_ids = <<>> THEN pending
    ELSE add_pending_nodes_unchecked(
             IF Head(node_ids) \notin executed
             THEN Append(pending, Head(node_ids)) ELSE pending,
             executed, Tail(node_ids))

RECURSIVE add_pending_nodes_requeue(_, _, _)
\* A variant of add_pending_nodes that does not look at executed_nodes.
add_pending_nodes_requeue(pending, executed, node_ids) ==
    IF node_ids = <<>> THEN pending
    ELSE add_pending_nodes_requeue(
             IF \A k \in DOMAIN pending : pending[k] # Head(node_ids)
             THEN Append(pending, Head(node_ids)) ELSE pending,
             executed, Tail(node_ids))

RECURSIVE add_pending_nodes(_, _, _)
\* add_pending_nodes: append each id that is neither executed nor queued.
add_pending_nodes(pending, executed, node_ids) ==
    IF node_ids = <<>> THEN pending
    ELSE LET id == Head(node_ids)
             p  == IF id \notin executed /\ \A k \in DOMAIN pending : pending[k] # id
                   THEN Append(pending, id)
                   ELSE pending
         IN  add_pending_nodes(p, executed, Tail(node_ids))


\* add_node_result: append the result and mark its node id, if it has one,
\* as executed.
add_node_result(results, executed, res) ==
    [node_results |-> Append(results, res),
     executed_nodes |-> IF res.node_id # NoNode
                        THEN executed \cup {res.node_id} ELSE executed]

\* A variant of get_next_node that pops the last id.
get_next_node_last(pending) ==
    IF pending # <<>>
    THEN [node_id |-> pending[Len(pending)],
          pending_nodes |-> SubSeq(pending, 1, Len(pending) - 1)]
    ELSE [node_id |-> NoNode, pending_nodes |-> pending]

\* get_next_node: pop(0), or None (NoNode) when the queue is empty.
get_next_node(pending) ==
    IF pending # <<>>
    THEN [node_id |-> Head(pending), pending_nodes |-> Tail(pending)]
    ELSE [node_id |-> NoNode, pending_nodes |-> pending]

\* get_latest_output: the last result's output, or input_data.
get_latest_output(results, inp) ==
    IF results # <<>> THEN results[Len(results)].output ELSE inp

\* ------------------------------------------------------------------------
\* Node behaviours: execute(input_data, context)
\* ------------------------------------------------------------------------
\* One attempt's outcome: execute returned (ok), raised an exception (raise)
\* or was cut by BaseNode.run's wait_for (timeout).  next_nodes is the
\* node's self.next_nodes when the attempt ends.
\* thread tells what became of the worker thread the attempt started, if
\* any: "none", "done" or still "running"; script tells what the attempt's
\* script did, if it had one: "ended", "wrote" (ended after assigning a key
\* of input_data), "raised" or "timeout" (it was still running when a
\* wait_for gave up); provider tells what the attempt's LLM
\* provider did, if it had one: "ok", "unavailable" (get_llm_provider
\* raised) or "failed" (generate raised).
Returned(output, next_nodes) ==
    [kind |-> "ok", output |-> output, msg |-> "", next_nodes |-> next_nodes,
     thread |-> "none", script |-> "", provider |-> ""]
Raised(msg, next_nodes) ==
    [kind |-> "raise", output |-> NoneData, msg |-> msg, next_nodes |-> next_nodes,
     thread |-> "none", script |-> "", provider |-> ""]
TimedOut(next_nodes) ==
    [kind |-> "timeout", output |-> NoneData, msg |-> "", next_nodes |-> next_nodes,
     thread |-> "none", script |-> "", provider |-> ""]

\* ConditionNode's config in every modelled workflow: field "value",
\* operator ">", value 50.
ConditionValue == 50

\* _get_nested_field + _evaluate_condition: None > 50 raises TypeError,
\* which _evaluate_condition turns into False.
evaluate_condition(data) ==
    IF data.none \/ data.value = 0 THEN FALSE ELSE data.value > ConditionValue

\* The branch ConditionNode.execute binds self.next_nodes to.
condition_next_nodes(config, res) ==
    IF res /\ config.true_branch # NoNode THEN <<config.true_branch>>
    ELSE IF ~res /\ config.false_branch # NoNode THEN <<config.false_branch>>
    ELSE <<>>

\* DelayNode.execute: sleeps, then returns {**input_data, "_delay_info": ...},
\* which raises TypeError when input_data is None.
\* A sleep of 60 s or more outlasts the wait_for of BaseNode.run when the
\* config has no "timeout" (base.py:94-95).
\* Before the sleep, a "seconds" that is neither a number nor a "{{name}}"
\* reference, or that is negative, raises ValueError; a reference reads
\* input_data.get(name, 0), which raises AttributeError on None.
delay_execute(node, data) ==
    IF node.config.seconds = "text"
    THEN {Raised("Invalid 'seconds' value", node.next_nodes)}
    ELSE IF node.config.seconds = "negative"
    THEN {Raised("'seconds' must be non-negative", node.next_nodes)}
    ELSE IF data.none /\ node.config.seconds = "reference"
    THEN {Raised("'NoneType' object has no attribute 'get'", node.next_nodes)}
    ELSE IF node.config.seconds = "long" /\ ~node.config.timeout
    THEN {TimedOut(node.next_nodes)}
    ELSE IF data.none
    THEN {Raised("'NoneType' object is not a mapping", node.next_nodes)}
    ELSE {Returned([data EXCEPT !.delay_info = node.node_id], node.next_nodes)}

\* ConditionNode.execute: binds self.next_nodes, then returns
\* {**input_data, "_condition_result": ...} (TypeError on None).
condition_execute(node, data) ==
    LET res  == evaluate_condition(data)
        next == condition_next_nodes(node.config, res)
    IN  IF data.none
        THEN {Raised("'NoneType' object is not a mapping", next)}
        ELSE {Returned([data EXCEPT !.condition_by = node.node_id,
                                    !.condition_result = res], next)}

\* HTTPNode.execute: _replace_variables(url, None) raises AttributeError;
\* a method other than GET, POST, PUT, DELETE, PATCH raises ValueError;
\* otherwise the request succeeds, fails at the transport level (httpx
\* raises RequestError) or outlasts BaseNode.run's wait_for.
http_execute(node, data) ==
    IF data.none
    THEN {Raised("'NoneType' object has no attribute 'items'", node.next_nodes)}
    ELSE IF node.config.method \notin {"GET", "POST", "PUT", "DELETE", "PATCH"}
    THEN {Raised("Unsupported HTTP method", node.next_nodes)}
    ELSE {Returned(ResponseDict, node.next_nodes),
          Raised("request failed", node.next_nodes),
          TimedOut(node.next_nodes)}

\* python_node.py:128-144: the error dicts {**input_data, "_python_error":
\* ...}, which raise TypeError when input_data is None.
python_error_dict(node, data, marker, thread) ==
    IF data.none
    THEN [Raised("'NoneType' object is not a mapping", node.next_nodes)
            EXCEPT !.thread = thread]
    ELSE [Returned([data EXCEPT !.python_error = marker], node.next_nodes)
            EXCEPT !.thread = thread]

\* python_node.py:93-98, 116-119: the script's input_data is the dict the
\* node was given, and a script that leaves "output" empty returns that
\* very dict.  script_touch is the dict after the script of node id assigned
\* one of its keys.
script_touch(data, id) == [data EXCEPT !.touched = data.touched \cup {id}]

RECURSIVE touch_results(_, _, _)
\* node_results after the script of node id assigned a key of the output of
\* results[k]: the dict is also the output of each earlier result down to
\* the first whose node built a new dict (engine.py:109-110,
\* state.py:97-101: a node's input is the latest output, the same object;
\* after a script that "ended" or "wrote" the output is the node's input).
touch_results(results, k, id) ==
    IF k = 0 THEN results
    ELSE LET t == [results EXCEPT ![k].output = script_touch(results[k].output, id)]
         IN  IF results[k].script \in {"ended", "wrote"}
             THEN touch_results(t, k - 1, id)
             ELSE t

\* A script that outlasts the timeout.  base.py:95-96 waits
\* config.get("timeout", 60) for execute, python_node.py:63, 111-114 waits
\* config.get("timeout", 30) for the script: with a "timeout" key the two
\* durations are equal and the wait_for of run(), started first, gives up
\* first; without one the node's 30 s end before run()'s 60 s.  Either way
\* the await is abandoned and the thread is not.
python_timeout(node, data) ==
    IF node.config.timeout
    THEN [TimedOut(node.next_nodes) EXCEPT !.thread = "running",
                                           !.script = "timeout"]
    ELSE [python_error_dict(node, data, "timeout", "running")
            EXCEPT !.script = "timeout"]

\* PythonNode.execute: runs the script in a worker thread under
\* wait_for(timeout).  The script ends (leaving "output" empty, so that the
\* input is returned), raises, or outlasts the timeout.
python_execute(node, data) ==
    {[Returned(data, node.next_nodes) EXCEPT !.thread = "done",
                                             !.script = "ended"],
     [python_error_dict(node, data, "failed", "done") EXCEPT !.script = "raised"],
     python_timeout(node, data)} \cup
    (IF data.none THEN {}
     ELSE {[Returned(script_touch(data, node.node_id), node.next_nodes)
               EXCEPT !.thread = "done", !.script = "wrote"]})

\* LLMNode.execute: _replace_variables(prompt, None) raises AttributeError
\* (llm_node.py:81, 154); get_llm_provider() is called before the try block
\* (llm_node.py:89-90) and raises for an unknown provider or a missing
\* package (provider.py:41-46, 148-157); an exception of generate is
\* caught and turned into {**input_data, "llm_error": ..., "llm_response":
\* None} (llm_node.py:122-135).
llm_execute(node, data) ==
    IF data.none
    THEN {Raised("'NoneType' object has no attribute 'items'", node.next_nodes)}
    ELSE {[Returned([data EXCEPT !.llm = "response"], node.next_nodes)
              EXCEPT !.provider = "ok"],
          [Returned([data EXCEPT !.llm = "error"], node.next_nodes)
              EXCEPT !.provider = "failed"],
          [Raised("Unknown LLM provider", node.next_nodes)
              EXCEPT !.provider = "unavailable"]}

\* The outcomes of one attempt of node.execute(data, context).
execute(node, data) ==
    CASE node.type = "delay" -> delay_execute(node, data)
      [] node.type = "condition" -> condition_execute(node, data)
      [] node.type = "http_request" -> http_execute(node, data)
      [] node.type = "python_code" -> python_execute(node, data)
      [] node.type = "llm" -> llm_execute(node, data)
      [] OTHER -> {Returned(data, node.next_nodes)}

\* ------------------------------------------------------------------------
\* BaseNode.run
\* ------------------------------------------------------------------------
\* validate_config: TRUE when it raises ValueError or pydantic's error.
validate_config_raises(config) ==
    \/ config.type \notin NodeTypes
    \/ ~SchemaAccepts(config.type, config)

UnknownTypeMsg == "Unknown or missing node type"
NodeTimedOutMsg == "Node timed out"

\* The default result dict (base.py:69-77).  result["next_nodes"] is the
\* list self.next_nodes is bound to when run() starts.  attempts, raised,
\* timed_out, waits, last_failure, script and provider are not in the
\* code: they count the iterations of the retry loop, how they ended and
\* the asyncio.sleep(retry_delay) calls, and keep the message of the latest
\* exception and what the script or provider of the latest attempt did.
initial_result(node) ==
    [node_id |-> node.node_id, status |-> "success", output |-> NoneData,
     error |-> "", next_nodes |-> node.next_nodes,
     attempts |-> 0, raised |-> 0, timed_out |-> 0, waits |-> 0,
     last_failure |-> "", script |-> "", provider |-> ""]

\* Bookkeeping of the model: an iteration of the retry loop starts, an
\* attempt raises or times out with message msg.
note_attempt(res) == [res EXCEPT !.attempts = res.attempts + 1]
note_raise(res, msg) ==
    [res EXCEPT !.raised = res.raised + 1, !.last_failure = msg]
note_timeout(res, msg) ==
    [res EXCEPT !.timed_out = res.timed_out + 1, !.last_failure = msg]
note_wait(res) == [res EXCEPT !.waits = res.waits + 1]
note_outcome(res, o) ==
    [res EXCEPT !.script = o.script, !.provider = o.provider]

\* A variant of error_next_nodes that drops the error handler.
error_next_nodes_none(on_error) == <<>>

\* base.py:121-124: the successor list of a node whose retries are exhausted.
error_next_nodes(on_error) ==
    IF on_error # NoNode THEN <<on_error>> ELSE <<>>

\* base.py:98-99: the attempt returned an output.
result_on_success(res, output) ==
    [res EXCEPT !.output = output, !.status = "success"]

\* A variant of result_on_exception that keeps the result's status.
result_on_exception_swallowed(res, msg, att, retries, on_error) ==
    [res EXCEPT !.error = msg]

\* base.py:109-125: the attempt raised; att is the incremented counter.
result_on_exception(res, msg, att, retries, on_error) ==
    LET r == [res EXCEPT !.status = "error", !.error = msg]
    IN  IF att <= retries THEN r
        ELSE [r EXCEPT !.next_nodes = error_next_nodes(on_error)]

\* A variant of success_next_nodes that reads self.next_nodes after execute.
success_next_nodes_rebound(res, bound) == bound

\* base.py:69-77, 98-101: result["next_nodes"] of a successful attempt is
\* the list self.next_nodes was bound to when run() started, not the list
\* (bound) execute has bound it to since.
success_next_nodes(res, bound) == res.next_nodes

\* A variant of retry_after_exception that gives up one attempt early.
retry_after_exception_short(att, retries) == att < retries

\* base.py:109-118: whether run() sleeps retry_delay and tries again.
retry_after_exception(att, retries) == att <= retries

\* base.py:103-125: the attempt timed out.
result_on_timeout(res, on_error) ==
    [res EXCEPT !.status = "error", !.error = NodeTimedOutMsg,
                !.next_nodes = error_next_nodes(on_error)]

\* base.py:103-107, 120-125: no retry follows a TimeoutError.
retry_after_timeout(att, retries) == FALSE

\* ------------------------------------------------------------------------
\* WorkflowEngine.execute_workflow, from one await to the next
\* ------------------------------------------------------------------------
Node == nodes_map[node_id]

\* A variant of definition_after_execute in which the node writes its
\* successors into the list it was given.
definition_after_execute_in_place(wf, id, next_nodes) ==
    [wf EXCEPT !.nodes =
        [i \in DOMAIN wf.nodes |->
            IF wf.nodes[i].id = id
            THEN [wf.nodes[i] EXCEPT !.next_nodes = next_nodes]
            ELSE wf.nodes[i]]]

\* The definition after node id's execute bound self.next_nodes to
\* next_nodes.  engine.py:147 and base.py:132 make the instance's
\* next_nodes the very list of the definition; condition_node.py:98-103
\* assigns a new list to the attribute and never writes into the old one.
definition_after_execute(wf, id, next_nodes) == wf

\* state.py:48: start() stores the start time in the shared store.
start_global_state(store) == store \cup {"start_time"}

\* The last statement of every modelled script,
\* context.global_state[<node id>] = True (python_node.py:93-98 hands the
\* context, and with it state.global_state, to the script).
script_write(store, id) == store \cup {id}

\* engine.py:95: the guard of _execute_nodes' while loop.
loop_continues(pending, iters) == pending # <<>> /\ iters < max_iterations

\* A variant of iterations_exceeded that tolerates max_iterations iterations.
iterations_exceeded_strict(iters) == iters > max_iterations

\* engine.py:130: the check after the loop.
iterations_exceeded(iters) == iters >= max_iterations

\* A variant of next_node_input that always passes the run's input.
next_node_input_initial(results, initial_input) == initial_input

\* engine.py:110: the input of the node about to run.
next_node_input(results, initial_input) ==
    IF results # <<>> THEN get_latest_output(results, initial_input)
    ELSE initial_input

\* engine.py:38-53: create the state, build the node graph (outside the
\* try block: an exception of create_node leaves execute_workflow), start
\* the state and queue the start node.
StartWorkflow ==
    /\ pc = "init"
    /\ IF build_node_graph_raises(workflow)
       THEN /\ pc' = "raised"
            /\ UNCHANGED <<life_vars, pending_nodes, nodes_map, global_state>>
       ELSE /\ nodes_map' = build_node_graph(workflow)
            /\ SetLife(start(Life, clock + 1))
            /\ global_state' = start_global_state(global_state)
            /\ pending_nodes' =
                   add_pending_nodes(pending_nodes, executed_nodes,
                                     <<workflow.start_node>>)
            /\ pc' = "loop"
    /\ UNCHANGED <<workflow, input_data, node_results, executed_nodes,
                   iterations, node_id, node_input, result, attempt, workers,
                   api_vars>>

\* engine.py:95-110 and base.py:66-82: one pass of the while loop up to the
\* call of node.run, or the end of the loop and of execute_workflow
\* (engine.py:130-131, 67-82).
LoopIter ==
    /\ pc = "loop"
    /\ IF loop_continues(pending_nodes, iterations)
       THEN /\ iterations' = iterations + 1
            /\ pending_nodes' = get_next_node(pending_nodes).pending_nodes
            /\ IF get_next_node(pending_nodes).node_id \in DOMAIN nodes_map
               THEN /\ node_id' = get_next_node(pending_nodes).node_id
                    /\ node_input' = next_node_input(node_results, input_data)
                    /\ result' = initial_result(
                           nodes_map[get_next_node(pending_nodes).node_id])
                    /\ attempt' = 0
                    /\ pc' = "attempt"
               ELSE /\ pc' = "loop"
                    /\ UNCHANGED <<node_id, node_input, result, attempt>>
            /\ UNCHANGED life_vars
       ELSE /\ IF iterations_exceeded(iterations)
               THEN SetLife(fail(Life, MaxIterationsError, clock + 1))
               ELSE SetLife(complete(Life,
                                     get_latest_output(node_results, input_data),
                                     clock + 1))
            /\ pc' = "returned"
            /\ UNCHANGED <<iterations, pending_nodes, node_id, node_input,
                           result, attempt>>
    /\ UNCHANGED <<workflow, input_data, node_results, executed_nodes,
                   nodes_map, workers, global_state, api_vars>>

\* base.py:84-96: the head of the retry loop, validate_config and the call
\* of execute under wait_for; a PythonNode hands its script to a worker
\* thread.
AttemptBegin ==
    /\ pc = "attempt"
    /\ IF attempt <= Node.config.retries
       THEN IF validate_config_raises(Node.config)
            THEN /\ attempt' = attempt + 1
                 /\ result' = result_on_exception(
                        note_raise(note_attempt(result), UnknownTypeMsg),
                        UnknownTypeMsg, attempt + 1, Node.config.retries,
                        Node.on_error)
                 /\ pc' = IF retry_after_exception(attempt + 1, Node.config.retries)
                          THEN "retry_sleep" ELSE "record"
                 /\ UNCHANGED workers
            ELSE /\ result' = note_attempt(result)
                 /\ pc' = "executing"
                 /\ workers' = IF Node.type = "python_code"
                               THEN workers \cup {node_id} ELSE workers
                 /\ UNCHANGED attempt
       ELSE /\ pc' = "record"
            /\ UNCHANGED <<attempt, result, workers>>
    /\ UNCHANGED <<workflow, input_data, life_vars,
                   node_results, executed_nodes, pending_nodes, nodes_map,
                   iterations, node_id, node_input, global_state, api_vars>>

\* base.py:96-125: the awaited execute returns, raises or times out.
AttemptEnd ==
    /\ pc = "executing"
    /\ \E o \in execute(Node, node_input) :
        /\ nodes_map' = [nodes_map EXCEPT ![node_id].next_nodes = o.next_nodes]
        /\ workflow' = definition_after_execute(workflow, node_id, o.next_nodes)
        /\ workers' = IF o.thread = "done" THEN workers \ {node_id} ELSE workers
        /\ node_results' = IF o.script = "wrote"
                            THEN touch_results(node_results, Len(node_results),
                                               node_id)
                            ELSE node_results
        /\ input_data' = IF /\ o.script = "wrote"
                             /\ \A k \in DOMAIN node_results :
                                    node_results[k].script \in {"ended", "wrote"}
                          THEN script_touch(input_data, node_id)
                          ELSE input_data
        /\ node_input' = IF o.script = "wrote"
                          THEN script_touch(node_input, node_id)
                          ELSE node_input
        /\ global_state' = IF o.script \in {"ended", "wrote"}
                            THEN script_write(global_state, node_id)
                            ELSE global_state
        /\ CASE o.kind = "ok" ->
                  /\ result' = [result_on_success(note_outcome(result, o), o.output)
                                   EXCEPT !.next_nodes =
                                       success_next_nodes(result, o.next_nodes)]
                  /\ pc' = "record"
                  /\ UNCHANGED attempt
             [] o.kind = "raise" ->
                  /\ attempt' = attempt + 1
                  /\ result' = result_on_exception(
                                   note_raise(note_outcome(result, o), o.msg),
                                   o.msg, attempt + 1,
                                   Node.config.retries, Node.on_error)
                  /\ pc' = IF retry_after_exception(attempt + 1, Node.config.retries)
                           THEN "retry_sleep" ELSE "record"
             [] o.kind = "timeout" ->
                  /\ attempt' = attempt + 1
                  /\ result' = result_on_timeout(
                                   note_timeout(note_outcome(result, o),
                                                NodeTimedOutMsg),
                                   Node.on_error)
                  /\ pc' = IF retry_after_timeout(attempt + 1, Node.config.retries)
                           THEN "retry_sleep" ELSE "record"
    /\ UNCHANGED <<life_vars, executed_nodes, pending_nodes, iterations,
                   node_id, api_vars>>

\* base.py:117-118: asyncio.sleep(retry_delay) ends; continue.
RetrySleep ==
    /\ pc = "retry_sleep"
    /\ result' = note_wait(result)
    /\ pc' = "attempt"
    /\ UNCHANGED <<workflow, input_data, life_vars,
                   node_results, executed_nodes, pending_nodes, nodes_map,
                   iterations, node_id, node_input, attempt, workers, global_state, api_vars>>

\* executor.py:44-51: node.run has returned; execute_node stores the result
\* in the state and returns it.
RecordResult ==
    /\ pc = "record"
    /\ node_results' =
           add_node_result(node_results, executed_nodes, result).node_results
    /\ executed_nodes' =
           add_node_result(node_results, executed_nodes, result).executed_nodes
    /\ pc' = "handle"
    /\ UNCHANGED <<workflow, input_data, life_vars, pending_nodes, nodes_map,
                   iterations, node_id, node_input, result, attempt, workers,
                   global_state, api_vars>>

\* engine.py:116-128, 77-82: queue the successors the result names, or
\* fail the run when an error result names none.
HandleResult ==
    /\ pc = "handle"
    /\ IF result.status = "success" \/ result.next_nodes # <<>>
       THEN /\ pending_nodes' =
                   add_pending_nodes(pending_nodes, executed_nodes,
                                     result.next_nodes)
            /\ pc' = "loop"
            /\ UNCHANGED life_vars
       ELSE /\ SetLife(fail(Life, NodeFailed(node_id, result.error), clock + 1))
            /\ pc' = "returned"
            /\ UNCHANGED pending_nodes
    /\ UNCHANGED <<workflow, input_data, node_results, executed_nodes,
                   nodes_map, iterations, node_id, node_input, result, attempt,
                   workers, global_state, api_vars>>

\* A variant of WorkflowTimeout that records the failure and lets the loop
\* go on.
WorkflowTimeoutContinues ==
    /\ pc \in {"executing", "retry_sleep"}
    /\ SetLife(fail(Life, WorkflowTimeoutError, clock + 1))
    /\ pc' = "loop"
    /\ UNCHANGED <<workflow, input_data, node_results,
                   executed_nodes, pending_nodes, nodes_map, iterations,
                   node_id, node_input, result, attempt, workers, global_state, api_vars>>

\* engine.py:62-65, 72-75: asyncio.wait_for cancels _execute_nodes at the
\* await it is suspended in and execute_workflow fails the run.  A script
\* in a worker thread is not reached by the cancellation.
WorkflowTimeout ==
    /\ pc \in {"executing", "retry_sleep"}
    /\ SetLife(fail(Life, WorkflowTimeoutError, clock + 1))
    /\ pc' = "returned"
    /\ UNCHANGED <<workflow, input_data, node_results,
                   executed_nodes, pending_nodes, nodes_map, iterations,
                   node_id, node_input, result, attempt, workers, global_state, api_vars>>

\* python_node.py:152-153: a script whose await was abandoned runs to its
\* end in its worker thread, where it writes to context.global_state.
WorkerFinish ==
    /\ \E id \in workers :
        /\ ~(pc = "executing" /\ id = node_id)
        /\ workers' = workers \ {id}
        /\ global_state' = script_write(global_state, id)
    /\ UNCHANGED <<workflow, input_data, pc, life_vars, node_results,
                   executed_nodes, pending_nodes, nodes_map, iterations,
                   node_id, node_input, result, attempt, api_vars>>

Next ==
    \/ StartWorkflow
    \/ LoopIter
    \/ AttemptBegin
    \/ AttemptEnd
    \/ RetrySleep
    \/ RecordResult
    \/ HandleResult
    \/ WorkflowTimeout
    \/ WorkerFinish

\* ------------------------------------------------------------------------
\* The workflow definitions and inputs of the modelled runs
\* ------------------------------------------------------------------------
\* next_nodes lists: up to MaxNext distinct node ids.
NextLists ==
    UNION {{s \in [1..n -> NodeIds] :
                \A i, j \in 1..n : i # j => s[i] # s[j]} : n \in 0..MaxNext}

Handlers == {NoNode} \cup NodeIds

\* A delay node whose config passes validate_config: it succeeds on a dict.
PlainNodes(id) ==
    {NodeSchema(id, "delay", Config("delay", "delay", 0, NoNode, NoNode),
                nx, NoNode) : nx \in NextLists}

\* A delay node whose config has no "type" key (as in tests/test_nodes.py):
\* the constructor accepts it and validate_config raises at every attempt.
UntypedNodes(id) ==
    {NodeSchema(id, "delay", Config("", "delay", r, NoNode, NoNode),
                <<>>, e) : r \in 0..MaxRetries, e \in Handlers}

\* A network-call node: each attempt may succeed, raise or time out.
HttpNodes(id) ==
    {NodeSchema(id, "http_request",
                Config("http_request", "http_request", r, NoNode, NoNode),
                <<>>, e) : r \in 0..MaxRetries, e \in Handlers}

\* A node whose config lacks its type's required fields.
MalformedNodes(id) ==
    {NodeSchema(id, "delay", Config("delay", "", 0, NoNode, NoNode),
                <<>>, NoNode)}

\* Nodes "A" with an uncommon config, each followed by a delay node "B":
\* a network-call node whose method is TRACE; a delay node whose "retries"
\* is -1 (int(config.get("retries", 0)) takes any integer and nothing
\* validates the key); a delay node of 60 s or more.
UncommonNodes(id) ==
    {NodeSchema(id, "http_request",
                [Config("http_request", "http_request", r, NoNode, NoNode)
                    EXCEPT !.method = "TRACE"],
                <<>>, e) : r \in 0..MaxRetries, e \in {NoNode, "B"}} \cup
    {NodeSchema(id, "delay", Config("delay", "delay", -1, NoNode, NoNode),
                nx, e) : nx \in {<<>>, <<"B">>}, e \in {NoNode, "B"}} \cup
    {NodeSchema(id, "delay",
                [Config("delay", "delay", r, NoNode, NoNode) EXCEPT !.seconds = "long"],
                <<>>, e) : r \in 0..MaxRetries, e \in {NoNode, "B"}}

UncommonWorkflows ==
    {[nodes |-> <<a, b>>, start_node |-> "A"] :
        a \in UncommonNodes("A"),
        b \in {n \in PlainNodes("B") : n.next_nodes = <<>>}}

\* A single delay node whose "seconds" is not a positive number.
DelaySecondsWorkflows ==
    {[nodes |-> <<NodeSchema("A", "delay",
                             [Config("delay", "delay", 0, NoNode, NoNode)
                                 EXCEPT !.seconds = k],
                             <<>>, NoNode)>>,
      start_node |-> "A"] : k \in SecondsKinds \ {"positive", "long"}}

\* A condition node on "value" > 50.
ConditionNodes(id) ==
    {NodeSchema(id, "condition",
                Config("condition", "condition", 0, tb, fb), nx, NoNode) :
        tb \in Handlers, fb \in Handlers, nx \in NextLists}

\* Definitions validate_workflow accepts although a branch of their
\* condition node names "C", which is no node: validate_workflow reads
\* next_nodes and on_error, not the branches in the config.
DanglingBranchWorkflows ==
    {wf \in {[nodes |-> <<a, b>>, start_node |-> "A"] :
                a \in ConditionNodes("A"),
                b \in {n \in PlainNodes("B") : Len(n.next_nodes) <= 1}} :
        /\ validate_workflow(wf).ok
        /\ "C" \in {wf.nodes[1].config.true_branch,
                    wf.nodes[1].config.false_branch}}

\* Workflows of delay and network-call nodes, started at "A".
NodeChoices(id) ==
    PlainNodes(id) \cup UntypedNodes(id) \cup HttpNodes(id) \cup MalformedNodes(id)

GeneralWorkflows ==
    {[nodes |-> <<a, b, c>>, start_node |-> "A"] :
        a \in NodeChoices("A"), b \in NodeChoices("B"), c \in NodeChoices("C")}

\* Workflows that start with a condition node, followed by delay nodes with
\* at most one successor.
CondFollowers(id) ==
    {n \in PlainNodes(id) : Len(n.next_nodes) <= 1} \cup
    {n \in UntypedNodes(id) : n.on_error = NoNode}

CondWorkflows ==
    {[nodes |-> <<a, b, c>>, start_node |-> "A"] :
        a \in ConditionNodes("A"),
        b \in CondFollowers("B"), c \in CondFollowers("C")}

\* Chains of delay nodes A -> B -> ..., up to one node more than the
\* iteration cap allows; the last node is terminal or points back to "A".
ChainIds == <<"A", "B", "C", "D", "E">>

ChainNode(i, next_nodes) ==
    NodeSchema(ChainIds[i], "delay", Config("delay", "delay", 0, NoNode, NoNode),
               next_nodes, NoNode)

ChainWorkflows ==
    {[nodes |-> [i \in 1..k |-> ChainNode(i, IF i < k THEN <<ChainIds[i + 1]>>
                                             ELSE last)],
      start_node |-> "A"] :
        k \in 1..Len(ChainIds), last \in {<<>>, <<"A">>}}

Inputs == {InputDict(v) : v \in InputValues}

\* Only a condition node reads the input's "value".
GeneralInput == InputDict(75)

\* No validate_workflow call and no call of a state method was made.
NoValidation == [ok |-> FALSE, kind |-> "not_called", node |-> NoNode, ref |-> NoNode]
NoCall == [op |-> "none", ids |-> <<>>, ret |-> NoNode, n |-> 0]

NoResult ==
    [node_id |-> NoNode, status |-> "success", output |-> NoneData,
     error |-> "", next_nodes |-> <<>>,
     attempts |-> 0, raised |-> 0, timed_out |-> 0, waits |-> 0,
     last_failure |-> "", script |-> "", provider |-> ""]

\* A script node, with at most one successor.
PythonNodes(id) ==
    {NodeSchema(id, "python_code",
                Config("python_code", "python_code", 0, NoNode, NoNode),
                nx, NoNode) : nx \in {n \in NextLists : Len(n) <= 1}}

\* A script node whose config has a "timeout" key.
TimedPythonNodes(id) ==
    {[n EXCEPT !.config.timeout = TRUE] : n \in PythonNodes(id)}

\* A generative-text node followed by a delay node.
LlmNodes(id) ==
    {NodeSchema(id, "llm", Config("llm", "llm", r, NoNode, NoNode), nx, e) :
        r \in 0..MaxRetries, nx \in {<<>>, <<"B">>}, e \in {NoNode, "B"}}

LlmWorkflows ==
    {[nodes |-> <<a, b>>, start_node |-> "A"] :
        a \in LlmNodes("A"),
        b \in {n \in PlainNodes("B") : n.next_nodes = <<>>}}

\* A network-call node whose error handler is a script node: when the
\* request fails, the script's input is the failed node's output, None.
HandledPythonWorkflows ==
    {[nodes |-> <<a, b>>, start_node |-> "A"] :
        a \in {n \in HttpNodes("A") : n.on_error = "B" /\ n.config.retries = 0},
        b \in {n \in PythonNodes("B") : n.next_nodes = <<>>}}

\* Workflows of script nodes and delay nodes.
PythonWorkflows ==
    {[nodes |-> <<a, b, c>>, start_node |-> "A"] :
        a \in PythonNodes("A") \cup TimedPythonNodes("A"),
        b \in PythonNodes("B") \cup {n \in PlainNodes("B") : Len(n.next_nodes) <= 1},
        c \in PythonNodes("C") \cup {n \in PlainNodes("C") : n.next_nodes = <<>>}}

\* Definitions of one or two delay nodes named "A" or "B", whose start
\* node, next_nodes and on_error may name the undefined "C" and whose ids
\* may coincide.
SmallNodes(id) ==
    {NodeSchema(id, "delay", Config("delay", "delay", 0, NoNode, NoNode), nx, e) :
        nx \in {n \in NextLists : Len(n) <= 1}, e \in {NoNode, "A", "C"}}

SmallWorkflows ==
    LET ns == SmallNodes("A") \cup SmallNodes("B")
    IN  {[nodes |-> <<a>>, start_node |-> st] : a \in ns, st \in {"A", "C"}} \cup
        {[nodes |-> <<a, b>>, start_node |-> st] :
            a \in ns, b \in ns, st \in {"A", "C"}}

\* The definitions validate_workflow rejects.
InvalidWorkflows == {wf \in SmallWorkflows : ~validate_workflow(wf).ok}

\* The runs of the process: two calls of execute_workflow.
RunIds == {1, 2}
NoRun == 0

\* The statements of the modelled scripts.  python_node.py:93-107 puts
\* the run's context and the module objects math, json, re and datetime
\* in the globals of every script:
\*   "publish"          math.ctx = context
\*   "write_own"        context.global_state[context.workflow_id] = True
\*   "write_published"  math.ctx.global_state[context.workflow_id] = True
Statements == {"publish", "write_own", "write_published"}

\* The scripts: up to MaxScript statements.
Scripts == UNION {[1..n -> Statements] : n \in 0..MaxScript}

\* The key a script of run r writes: the workflow id of its context.
WorkflowId(r) == IF r = 1 THEN "w1" ELSE "w2"

\* state.py:22-42: the fresh WorkflowExecutionState of run r, whose
\* workflow is one script node "A" with the given code; left is what
\* remains of the script being executed.
NewRun(script) ==
    [pc |-> "init", status |-> PENDING, global_state |-> {},
     pending_nodes |-> <<>>, executed_nodes |-> {}, node_results |-> <<>>,
     script |-> script, left |-> <<>>, raised |-> FALSE]

\* No other run is in progress; the sandbox modules are as imported.
IdleRuns ==
    /\ runs = [r \in RunIds |-> NewRun(<<>>)]
    /\ modules = NoRun

\* registry.py:30-36: the registry as the class statement builds it; a
\* type that is not a key has NoClass.
NodeClasses == {"HTTPNode", "DelayNode", "ConditionNode", "PythonNode",
                "LLMNode", "CustomNode", "OtherNode"}
NoClass == ""
RegTypes == NodeTypes \cup {"custom"}

InitialRegistry ==
    [t \in RegTypes |->
        CASE t = "http_request" -> "HTTPNode"
          [] t = "delay" -> "DelayNode"
          [] t = "condition" -> "ConditionNode"
          [] t = "python_code" -> "PythonNode"
          [] t = "llm" -> "LLMNode"
          [] OTHER -> NoClass]

\* No NodeRegistry method was called.  op, type and class are the call and
\* its arguments, raised and ret whether it raised and what it returned
\* (types for get_registered_types), before the registry it was called
\* on, latest the class of the latest successful register_node of each
\* type, n the number of calls made.
NoRegCall ==
    [op |-> "none", type |-> "", class |-> NoClass, raised |-> FALSE,
     ret |-> NoClass, types |-> {}, before |-> InitialRegistry,
     latest |-> [t \in RegTypes |-> NoClass], n |-> 0]

IdleRegistry ==
    /\ registry = InitialRegistry
    /\ reg_call = NoRegCall

\* The row of the workflows table under the workflow id the model follows
\* (models/workflow_model.py:18-21): nodes is the JSON text of the node
\* list (json.dumps of the nodes' model_dump()), kept as [json |-> list].
NoStored ==
    [exists |-> FALSE, nodes |-> [json |-> <<>>], start_node |-> NoNode,
     is_active |-> FALSE]

\* crud_workflow.py:136-154: the WorkflowResponse built from a row, its
\* nodes read back from the JSON text.
model_to_response(row) ==
    [nodes |-> row.nodes.json, start_node |-> row.start_node]

\* No request was served.  op is the endpoint, code the HTTP status of its
\* response, workflow the definition handed to engine.execute_workflow (by
\* the execute endpoint), n the number of requests served.
NoApiCall ==
    [op |-> "none", code |-> 0, workflow |-> model_to_response(NoStored), n |-> 0]

IdleApi ==
    /\ stored = NoStored
    /\ api_call = NoApiCall

\* state.py:22-42: the fresh WorkflowExecutionState of a call.
InitState ==
    /\ pc = "init"
    /\ status = PENDING
    /\ output_data = NoneData
    /\ error = NoError
    /\ node_results = <<>>
    /\ executed_nodes = {}
    /\ pending_nodes = <<>>
    /\ nodes_map = <<>>
    /\ iterations = 0
    /\ node_id = NoNode
    /\ node_input = NoneData
    /\ result = NoResult
    /\ attempt = 0
    /\ start_time = 0
    /\ end_time = 0
    /\ clock = 0
    /\ workers = {}
    /\ global_state = {}
    /\ validation = NoValidation
    /\ last_call = NoCall

Init ==
    /\ \/ workflow \in GeneralWorkflows \cup ChainWorkflows \cup PythonWorkflows
                         \cup HandledPythonWorkflows \cup LlmWorkflows
                         \cup DelaySecondsWorkflows \cup UncommonWorkflows
                         \cup InvalidWorkflows
          /\ input_data = GeneralInput
       \/ workflow \in CondWorkflows \cup DanglingBranchWorkflows
          /\ input_data \in Inputs
    /\ InitState
    /\ IdleRuns
    /\ IdleRegistry
    /\ IdleApi

Spec == Init /\ [][Next]_vars

\* The event loop runs every ready callback and every timer fires: a
\* coroutine suspended in an await is eventually resumed.
FairSpec == Spec /\ WF_vars(Next)

\* ------------------------------------------------------------------------
\* validate_workflow, called on a definition (routes_workflow.py:50)
\* ------------------------------------------------------------------------
ValidateWorkflow ==
    /\ validation = NoValidation
    /\ validation' = validate_workflow(workflow)
    /\ UNCHANGED <<workflow, input_data, pc, life_vars, node_results,
                   executed_nodes, pending_nodes, nodes_map, iterations,
                   node_id, node_input, result, attempt, workers, global_state,
                   last_call, conc_vars, reg_vars, stored, api_call>>

ValidateInit ==
    /\ workflow \in SmallWorkflows
    /\ input_data = GeneralInput
    /\ InitState
    /\ IdleRuns
    /\ IdleRegistry
    /\ IdleApi

ValidateSpec == ValidateInit /\ [][ValidateWorkflow]_vars

\* ------------------------------------------------------------------------
\* A WorkflowExecutionState and the calls of its methods, in any order
\* (state.py:44-88; tests/test_orchestrator.py:12-65)
\* ------------------------------------------------------------------------
StateIds == {"A", "B"}

\* last_call after one more call.
Call(op, ids, ret) ==
    [op |-> op, ids |-> ids, ret |-> ret, n |-> last_call.n + 1]

state_queue_vars == <<node_results, executed_nodes, pending_nodes>>
state_fixed_vars ==
    <<workflow, input_data, pc, nodes_map, iterations, node_id, node_input,
      result, attempt, workers, validation, runs, modules, registry, reg_call,
      stored, api_call>>

CallStart ==
    /\ last_call.n < MaxCalls
    /\ SetLife(start(Life, clock + 1))
    /\ global_state' = start_global_state(global_state)
    /\ last_call' = Call("start", <<>>, NoNode)
    /\ UNCHANGED <<state_queue_vars, state_fixed_vars>>

CallComplete ==
    /\ last_call.n < MaxCalls
    /\ SetLife(complete(Life, InputDict(25), clock + 1))
    /\ last_call' = Call("complete", <<>>, NoNode)
    /\ UNCHANGED <<state_queue_vars, state_fixed_vars, global_state>>

CallFail ==
    /\ last_call.n < MaxCalls
    /\ SetLife(fail(Life, MaxIterationsError, clock + 1))
    /\ last_call' = Call("fail", <<>>, NoNode)
    /\ UNCHANGED <<state_queue_vars, state_fixed_vars, global_state>>

CallCancel ==
    /\ last_call.n < MaxCalls
    /\ SetLife(cancel(Life, clock + 1))
    /\ last_call' = Call("cancel", <<>>, NoNode)
    /\ UNCHANGED <<state_queue_vars, state_fixed_vars, global_state>>

\* add_node_result with the result of node id; NoNode: a dict without
\* "node_id".
CallAddNodeResult ==
    /\ last_call.n < MaxCalls
    /\ \E id \in StateIds \cup {NoNode} :
        LET res == [NoResult EXCEPT !.node_id = id]
        IN  /\ node_results' =
                   add_node_result(node_results, executed_nodes, res).node_results
            /\ executed_nodes' =
                   add_node_result(node_results, executed_nodes, res).executed_nodes
            /\ last_call' = Call("add_node_result", <<id>>, NoNode)
    /\ UNCHANGED <<life_vars, pending_nodes, state_fixed_vars, global_state>>

CallAddPendingNodes ==
    /\ last_call.n < MaxCalls
    /\ \E ids \in [1..1 -> StateIds] \cup [1..2 -> StateIds] :
        /\ pending_nodes' = add_pending_nodes(pending_nodes, executed_nodes, ids)
        /\ last_call' = Call("add_pending_nodes", ids, NoNode)
    /\ UNCHANGED <<life_vars, node_results, executed_nodes, state_fixed_vars,
                   global_state>>

CallGetNextNode ==
    /\ last_call.n < MaxCalls
    /\ pending_nodes' = get_next_node(pending_nodes).pending_nodes
    /\ last_call' = Call("get_next_node", <<>>, get_next_node(pending_nodes).node_id)
    /\ UNCHANGED <<life_vars, node_results, executed_nodes, state_fixed_vars,
                   global_state>>

StateNext ==
    \/ CallStart
    \/ CallComplete
    \/ CallFail
    \/ CallCancel
    \/ CallAddNodeResult
    \/ CallAddPendingNodes
    \/ CallGetNextNode

StateInit ==
    /\ workflow \in {wf \in ChainWorkflows : Len(wf.nodes) = 1 /\ wf.nodes[1].next_nodes = <<>>}
    /\ input_data = GeneralInput
    /\ InitState
    /\ IdleRuns
    /\ IdleRegistry
    /\ IdleApi

StateSpec == StateInit /\ [][StateNext]_vars

\* ------------------------------------------------------------------------
\* Two calls of execute_workflow running concurrently in one process, each
\* on a workflow of one script node (engine.py:23-131, python_node.py:47-153)
\* ------------------------------------------------------------------------
run_vars ==
    <<workflow, input_data, pc, status, output_data, error, node_results,
      executed_nodes, pending_nodes, nodes_map, iterations, node_id,
      node_input, result, attempt, start_time, end_time, clock, workers,
      global_state, validation, last_call>>

\* The result of script node "A" of a run.
ScriptResult(raised) ==
    [NoResult EXCEPT !.node_id = "A",
                     !.output = [GeneralInput EXCEPT !.python_error =
                                    IF raised THEN "failed" ELSE ""]]

\* engine.py:38-53: create the state, start it, queue the start node.
ConcStart(r) ==
    /\ runs[r].pc = "init"
    /\ runs' = [runs EXCEPT
                  ![r].status = RUNNING,
                  ![r].global_state = start_global_state(runs[r].global_state),
                  ![r].pending_nodes =
                      add_pending_nodes(runs[r].pending_nodes,
                                        runs[r].executed_nodes, <<"A">>),
                  ![r].pc = "loop"]
    /\ UNCHANGED <<modules, run_vars, reg_vars, stored, api_call>>

\* engine.py:95-113, 67-70: pop the next node and hand its script to a
\* worker thread, or complete the run when the queue is empty.
ConcLoop(r) ==
    /\ runs[r].pc = "loop"
    /\ IF runs[r].pending_nodes # <<>>
       THEN runs' = [runs EXCEPT
                       ![r].pending_nodes =
                           get_next_node(runs[r].pending_nodes).pending_nodes,
                       ![r].left = runs[r].script,
                       ![r].raised = FALSE,
                       ![r].pc = "script"]
       ELSE runs' = [runs EXCEPT ![r].status = COMPLETED,
                                 ![r].pc = "returned"]
    /\ UNCHANGED <<modules, run_vars, reg_vars, stored, api_call>>

\* python_node.py:153: exec runs the next statement of the script of run
\* r.  math.ctx raises AttributeError while no script has set it.
ConcStatement(r) ==
    /\ runs[r].pc = "script"
    /\ runs[r].left # <<>>
    /\ LET st == Head(runs[r].left)
       IN  CASE st = "publish" ->
                  /\ modules' = r
                  /\ runs' = [runs EXCEPT ![r].left = Tail(runs[r].left)]
             [] st = "write_own" ->
                  /\ runs' = [runs EXCEPT
                        ![r].left = Tail(runs[r].left),
                        ![r].global_state =
                            script_write(runs[r].global_state, WorkflowId(r))]
                  /\ UNCHANGED modules
             [] st = "write_published" ->
                  /\ IF modules = NoRun
                     THEN runs' = [runs EXCEPT ![r].left = <<>>,
                                               ![r].raised = TRUE]
                     ELSE runs' = [[runs EXCEPT ![r].left = Tail(runs[r].left)]
                                     EXCEPT ![modules].global_state =
                                         script_write(runs[modules].global_state,
                                                      WorkflowId(r))]
                  /\ UNCHANGED modules
    /\ UNCHANGED <<run_vars, reg_vars, stored, api_call>>

\* python_node.py:116-144, executor.py:44-51, engine.py:116-119: the script
\* has ended; the node's result is stored and its successors (none) queued.
ConcNodeEnd(r) ==
    /\ runs[r].pc = "script"
    /\ runs[r].left = <<>>
    /\ LET res == ScriptResult(runs[r].raised)
           added == add_node_result(runs[r].node_results,
                                    runs[r].executed_nodes, res)
       IN  runs' = [runs EXCEPT
                      ![r].node_results = added.node_results,
                      ![r].executed_nodes = added.executed_nodes,
                      ![r].pending_nodes =
                          add_pending_nodes(runs[r].pending_nodes,
                                            added.executed_nodes,
                                            res.next_nodes),
                      ![r].pc = "loop"]
    /\ UNCHANGED <<modules, run_vars, reg_vars, stored, api_call>>

\* A step of run r.
ConcStep(r) ==
    \/ ConcStart(r)
    \/ ConcLoop(r)
    \/ ConcStatement(r)
    \/ ConcNodeEnd(r)

ConcNext == \E r \in RunIds : ConcStep(r)

ConcInit ==
    /\ workflow \in {wf \in ChainWorkflows : Len(wf.nodes) = 1 /\ wf.nodes[1].next_nodes = <<>>}
    /\ input_data = GeneralInput
    /\ InitState
    /\ IdleRegistry
    /\ IdleApi
    /\ runs \in [RunIds -> {NewRun(sc) : sc \in Scripts}]
    /\ modules = NoRun

ConcurrentSpec == ConcInit /\ [][ConcNext]_vars

\* ------------------------------------------------------------------------
\* NodeRegistry and the calls of its methods, in any order
\* (registry.py:38-111; tests/test_nodes.py:184-199)
\* ------------------------------------------------------------------------
\* The types and classes the calls are made with; "dict" is a class that
\* does not inherit from BaseNode.
CallTypes == {"delay", "custom"}
CallClasses == {"DelayNode", "CustomNode", "OtherNode", "dict"}

\* A variant of register_node that keeps the class a type already has.
register_node_keep(reg, t, c) ==
    IF c \notin NodeClasses THEN [raised |-> TRUE, registry |-> reg]
    ELSE IF reg[t] # NoClass THEN [raised |-> FALSE, registry |-> reg]
    ELSE [raised |-> FALSE, registry |-> [reg EXCEPT ![t] = c]]

\* register_node: TypeError unless the class inherits from BaseNode;
\* otherwise the class is stored under the type, over any earlier one.
register_node(reg, t, c) ==
    IF c \notin NodeClasses THEN [raised |-> TRUE, registry |-> reg]
    ELSE [raised |-> FALSE, registry |-> [reg EXCEPT ![t] = c]]

\* create_node: ValueError for a type that is not a key, otherwise an
\* instance of the type's class (ret is the instance's class).
create_node(reg, t) ==
    IF reg[t] = NoClass THEN [raised |-> TRUE, ret |-> NoClass]
    ELSE [raised |-> FALSE, ret |-> reg[t]]

has_node_type(reg, t) == reg[t] # NoClass

get_registered_types(reg) == {t \in DOMAIN reg : reg[t] # NoClass}

\* reg_call after one more call.
RegCall(op, t, c, raised, ret, types, latest) ==
    [op |-> op, type |-> t, class |-> c, raised |-> raised, ret |-> ret,
     types |-> types, before |-> registry, latest |-> latest,
     n |-> reg_call.n + 1]

CallRegisterNode ==
    /\ reg_call.n < MaxCalls
    /\ \E t \in CallTypes, c \in CallClasses :
        /\ registry' = register_node(registry, t, c).registry
        /\ reg_call' = RegCall("register_node", t, c,
                               register_node(registry, t, c).raised, NoClass, {},
                               IF c \in NodeClasses
                               THEN [reg_call.latest EXCEPT ![t] = c]
                               ELSE reg_call.latest)
    /\ UNCHANGED <<run_vars, conc_vars, stored, api_call>>

CallCreateNode ==
    /\ reg_call.n < MaxCalls
    /\ \E t \in CallTypes :
        reg_call' = RegCall("create_node", t, NoClass,
                            create_node(registry, t).raised,
                            create_node(registry, t).ret, {}, reg_call.latest)
    /\ UNCHANGED <<registry, run_vars, conc_vars, stored, api_call>>

CallHasNodeType ==
    /\ reg_call.n < MaxCalls
    /\ \E t \in CallTypes :
        reg_call' = RegCall("has_node_type", t, NoClass, FALSE,
                            IF has_node_type(registry, t) THEN "True" ELSE "False",
                            {}, reg_call.latest)
    /\ UNCHANGED <<registry, run_vars, conc_vars, stored, api_call>>

CallGetRegisteredTypes ==
    /\ reg_call.n < MaxCalls
    /\ reg_call' = RegCall("get_registered_types", "", NoClass, FALSE, NoClass,
                           get_registered_types(registry), reg_call.latest)
    /\ UNCHANGED <<registry, run_vars, conc_vars, stored, api_call>>

RegistryNext ==
    \/ CallRegisterNode
    \/ CallCreateNode
    \/ CallHasNodeType
    \/ CallGetRegisteredTypes

RegistryInit ==
    /\ workflow \in {wf \in ChainWorkflows : Len(wf.nodes) = 1 /\ wf.nodes[1].next_nodes = <<>>}
    /\ input_data = GeneralInput
    /\ InitState
    /\ IdleRuns
    /\ IdleRegistry
    /\ IdleApi

RegistrySpec == RegistryInit /\ [][RegistryNext]_vars

\* ------------------------------------------------------------------------
\* The workflow API: create, update and execute requests for one workflow
\* id, in any order (api/routes_workflow.py, storage/crud_workflow.py)
\* ------------------------------------------------------------------------
\* The bodies of the update requests: fields is the set of the keys the
\* request sets (model_dump(exclude_unset=True)).
UpdateRequests ==
    {[fields |-> f, nodes |-> wf.nodes, start_node |-> st, is_active |-> a] :
        f \in {{"start_node"}, {"nodes"}, {"is_active"}, {"nodes", "start_node"}},
        wf \in {w \in SmallWorkflows : Len(w.nodes) = 1 /\ w.start_node = "A"},
        st \in {"A", "B", "C"}, a \in BOOLEAN}

\* crud_workflow.create_workflow: the row of a new workflow.
crud_create_workflow(wf) ==
    [exists |-> TRUE, nodes |-> [json |-> wf.nodes],
     start_node |-> wf.start_node, is_active |-> TRUE]

\* crud_workflow.update_workflow on an existing row.  model_dump turns the
\* NodeSchema objects of "nodes" into dicts, so node.model_dump() of line 92
\* raises AttributeError before any field is set; the other fields are
\* assigned to the row as they come.
crud_update_workflow(row, req) ==
    IF "nodes" \in req.fields THEN [raised |-> TRUE, row |-> row]
    ELSE [raised |-> FALSE,
          row |-> [row EXCEPT
                     !.start_node = IF "start_node" \in req.fields
                                    THEN req.start_node ELSE @,
                     !.is_active = IF "is_active" \in req.fields
                                   THEN req.is_active ELSE @]]

ApiCall(op, code, wf) ==
    [op |-> op, code |-> code, workflow |-> wf, n |-> api_call.n + 1]

\* routes_workflow.py:27-63: POST /: 400 unless validate_workflow accepts
\* the definition, else the row is created.
ApiCreateWorkflow ==
    /\ api_call.n < MaxCalls
    /\ ~stored.exists
    /\ \E wf \in SmallWorkflows :
        IF validate_workflow(wf).ok
        THEN /\ stored' = crud_create_workflow(wf)
             /\ api_call' = ApiCall("create", 201, model_to_response(NoStored))
        ELSE /\ api_call' = ApiCall("create", 400, model_to_response(NoStored))
             /\ UNCHANGED stored
    /\ UNCHANGED <<run_vars, conc_vars, reg_vars>>

\* routes_workflow.py:101-120: PUT /{workflow_id}: 404 without a row, 500
\* when crud_workflow.update_workflow raises, else the updated row.
ApiUpdateWorkflow ==
    /\ api_call.n < MaxCalls
    /\ \E req \in UpdateRequests :
        IF ~stored.exists
        THEN /\ api_call' = ApiCall("update", 404, model_to_response(NoStored))
             /\ UNCHANGED stored
        ELSE IF crud_update_workflow(stored, req).raised
        THEN /\ api_call' = ApiCall("update", 500, model_to_response(NoStored))
             /\ UNCHANGED stored
        ELSE /\ stored' = crud_update_workflow(stored, req).row
             /\ api_call' = ApiCall("update", 200, model_to_response(NoStored))
    /\ UNCHANGED <<run_vars, conc_vars, reg_vars>>

\* routes_workflow.py:137-178: POST /execute: 404 without a row, 400 for an
\* inactive workflow, else the stored definition goes to
\* engine.execute_workflow (500 when that call raises).
ApiExecuteWorkflow ==
    /\ api_call.n < MaxCalls
    /\ IF ~stored.exists
       THEN api_call' = ApiCall("execute", 404, model_to_response(NoStored))
       ELSE IF ~stored.is_active
       THEN api_call' = ApiCall("execute", 400, model_to_response(NoStored))
       ELSE api_call' = ApiCall("execute",
                                IF build_node_graph_raises(model_to_response(stored))
                                THEN 500 ELSE 200,
                                model_to_response(stored))
    /\ UNCHANGED <<stored, run_vars, conc_vars, reg_vars>>

ApiNext ==
    \/ ApiCreateWorkflow
    \/ ApiUpdateWorkflow
    \/ ApiExecuteWorkflow

ApiInit ==
    /\ workflow \in {wf \in ChainWorkflows : Len(wf.nodes) = 1 /\ wf.nodes[1].next_nodes = <<>>}
    /\ input_data = GeneralInput
    /\ InitState
    /\ IdleRuns
    /\ IdleRegistry
    /\ IdleApi

ApiSpec == ApiInit /\ [][ApiNext]_vars

\* ------------------------------------------------------------------------
\* Properties
\* ------------------------------------------------------------------------
ResultIds == [i \in DOMAIN node_results |-> node_results[i].node_id]

\* The definition of node id in the workflow (the last one, which is the
\* one _build_node_graph keeps, when the id is defined twice).
Definition(id) ==
    workflow.nodes[CHOOSE i \in DOMAIN workflow.nodes :
                       /\ workflow.nodes[i].id = id
                       /\ \A j \in DOMAIN workflow.nodes :
                              workflow.nodes[j].id = id => j <= i]

\* C1: for every workflow definition and input, execute_workflow returns:
\* until it has returned the call can take a step (it neither deadlocks nor
\* ends otherwise), its loop counters stay within their caps (it cannot run
\* forever), and once it has returned the status is COMPLETED or FAILED.
C1_AlwaysReturns ==
    /\ pc = "returned" => status \in {COMPLETED, FAILED}
    /\ pc # "returned" => ENABLED Next
    /\ iterations <= max_iterations
    /\ attempt <= MaxRetries + 1

\* C2: a workflow with a node whose configuration is malformed (or whose
\* type is unregistered) does not make execute_workflow raise: the call
\* returns a FAILED state that carries an error message.
C2_MalformedNodeFailsRun ==
    build_node_graph_raises(workflow) =>
        /\ pc # "raised"
        /\ pc = "returned" => status = FAILED /\ error # NoError

\* The run has returned, the workflow-wide timeout did not cut a node, and
\* every node it executed succeeded.
AllSucceeded ==
    /\ pc = "returned"
    /\ error.kind # "timeout"
    /\ \A i \in DOMAIN node_results : node_results[i].status = "success"

SeqRange(q) == {q[i] : i \in DOMAIN q}

RECURSIVE Enqueue(_, _, _)
\* queue, with those of ids appended that are neither in seen nor queued.
Enqueue(queue, seen, ids) ==
    IF ids = <<>> THEN queue
    ELSE Enqueue(IF Head(ids) \in seen \cup SeqRange(queue) THEN queue
                 ELSE Append(queue, Head(ids)),
                 seen, Tail(ids))

RECURSIVE Traverse(_, _)
\* The nodes reachable from the queued ones through the definitions'
\* next_nodes, each once, in first-in-first-out order; an id that names no
\* node is passed over.
Traverse(queue, visited) ==
    IF queue = <<>> THEN visited
    ELSE IF \A i \in DOMAIN workflow.nodes : workflow.nodes[i].id # Head(queue)
    THEN Traverse(Tail(queue), visited)
    ELSE LET v == Append(visited, Head(queue))
         IN  Traverse(Enqueue(Tail(queue), SeqRange(v),
                              Definition(Head(queue)).next_nodes), v)

TraversalOrder == Traverse(<<workflow.start_node>>, <<>>)

CompletedWithTrace ==
    /\ status = COMPLETED
    /\ node_results # <<>>
    /\ output_data = node_results[Len(node_results)].output
    /\ ResultIds = TraversalOrder

\* C3 as stated: a run in which every executed node succeeds ends
\* COMPLETED, its output_data is the output of the last Node Result and
\* node_results lists the nodes reachable from the start node through
\* next_nodes, each once, in FIFO order.
C3_SuccessfulRunCompletes == AllSucceeded => CompletedWithTrace

\* The extent to which the statement of C3 holds: for a definition whose
\* start node exists and a loop of fewer than max_iterations iterations.
SuccessfulRunBelowCapCompletes ==
    ( /\ AllSucceeded
      /\ iterations < max_iterations
      /\ \E i \in DOMAIN workflow.nodes :
             workflow.nodes[i].id = workflow.start_node ) => CompletedWithTrace

\* The selected branch of a condition node's config for input data.
SelectedBranch(config, data) ==
    IF evaluate_condition(data) THEN config.true_branch ELSE config.false_branch

BranchList(branch) == IF branch = NoNode THEN <<>> ELSE <<branch>>

\* C4: the Node Result of a ConditionNode that succeeded lists as its
\* next_nodes the branch the condition selected: [true_branch] when it
\* evaluated true, [false_branch] when false, [] when that branch is unset.
C4_ConditionResultListsBranch ==
    \A i \in DOMAIN node_results :
        LET r == node_results[i]
            d == Definition(r.node_id)
        IN  (d.type = "condition" /\ r.status = "success") =>
                r.next_nodes =
                    BranchList(IF r.output.condition_result
                               THEN d.config.true_branch
                               ELSE d.config.false_branch)

\* C5: in a run whose start node is a condition node with both branches
\* set to two different nodes other than itself, once the condition node has succeeded and the run has returned
\* without the workflow-wide timeout, the node of the selected branch is
\* the second entry of node_results and the node of the other branch was
\* not executed.
C5_SelectedBranchRunsNext ==
    (\E i \in DOMAIN workflow.nodes :
         workflow.nodes[i].id = workflow.start_node) =>
    LET d == Definition(workflow.start_node)
        sel == SelectedBranch(d.config, input_data)
        other == IF sel = d.config.true_branch THEN d.config.false_branch
                 ELSE d.config.true_branch
    IN  ( /\ d.type = "condition"
          /\ d.config.true_branch # NoNode
          /\ d.config.false_branch # NoNode
          /\ d.config.true_branch # d.config.false_branch
          /\ workflow.start_node \notin {d.config.true_branch,
                                          d.config.false_branch}
          /\ pc = "returned"
          /\ error.kind # "timeout"
          /\ node_results # <<>>
          /\ node_results[1].status = "success" ) =>
            /\ Len(node_results) >= 2
            /\ node_results[2].node_id = sel
            /\ other # sel => other \notin executed_nodes

Retries(id) == Definition(id).config.retries

\* C6: a finalized result of a node all of whose attempts raised shows
\* retries + 1 attempts and retries waits of retry_delay: one wait between
\* two consecutive attempts and none after the last.
C6_RaisingNodeAttemptedNPlus1Times ==
    \A i \in DOMAIN node_results :
        LET r == node_results[i]
        IN  (r.attempts >= 1 /\ r.raised = r.attempts) =>
                /\ r.status = "error"
                /\ r.attempts = Retries(r.node_id) + 1
                /\ r.waits = Retries(r.node_id)

\* An http node with retries = MaxRetries whose every request raised.
C6_Witness ==
    \E i \in DOMAIN node_results :
        LET r == node_results[i]
        IN  /\ Definition(r.node_id).type = "http_request"
            /\ Retries(r.node_id) = MaxRetries
            /\ r.raised = MaxRetries + 1
            /\ r.attempts = MaxRetries + 1
            /\ r.waits = MaxRetries

\* C7: a finalized result of a node all of whose attempts timed out shows
\* retries + 1 attempts, with a wait of retry_delay before each retry.
C7_TimedOutNodeAttemptedNPlus1Times ==
    \A i \in DOMAIN node_results :
        LET r == node_results[i]
        IN  (r.attempts >= 1 /\ r.timed_out = r.attempts) =>
                /\ r.attempts = Retries(r.node_id) + 1
                /\ r.waits = Retries(r.node_id)

\* C8: a finalized error result carries the message of the last failure
\* and the successor list [on_error], or [] without a handler; a result
\* with the empty list is the last one of the run, which has returned
\* FAILED with an error naming the node.
C8_ExhaustedRetriesFinalizeError ==
    \A i \in DOMAIN node_results :
        LET r == node_results[i]
            h == Definition(r.node_id).on_error
        IN  r.status = "error" =>
                /\ r.error = r.last_failure
                /\ r.error # ""
                /\ r.next_nodes = IF h # NoNode THEN <<h>> ELSE <<>>
                /\ r.next_nodes = <<>> =>
                       /\ i = Len(node_results)
                       /\ pc \in {"handle", "returned"}
                       /\ pc = "returned" =>
                              /\ status = FAILED
                              /\ error = NodeFailed(r.node_id, r.error)

\* A node without handler exhausted MaxRetries retries and failed the run
\* while another node was still pending.
C8_Witness ==
    /\ pc = "returned"
    /\ status = FAILED
    /\ error.kind = "node_failed"
    /\ pending_nodes # <<>>
    /\ node_results[Len(node_results)].status = "error"
    /\ node_results[Len(node_results)].raised = MaxRetries + 1

\* C9: a run does not complete with a node having failed whose on_error
\* handler (another node) was not executed after it.
C9_HandlerRunsAfterFailure ==
    status = COMPLETED =>
        \A i \in DOMAIN node_results :
            LET r == node_results[i]
                h == Definition(r.node_id).on_error
            IN  (r.status = "error" /\ h # NoNode /\ h # r.node_id) =>
                    \E j \in DOMAIN node_results :
                        j > i /\ node_results[j].node_id = h

\* Every node of the workflow names a successor.
NoTerminalNode ==
    \A i \in DOMAIN workflow.nodes : workflow.nodes[i].next_nodes # <<>>

\* C10 as stated: a run of a workflow without terminal node that has
\* returned, not cut by the workflow-wide timeout and with every executed
\* node succeeding, ended FAILED with the iteration-cap error.
C10_NoTerminalNodeHitsCap ==
    (NoTerminalNode /\ AllSucceeded) =>
        status = FAILED /\ error = MaxIterationsError

\* C10, amended: in a workflow without terminal node every node is
\* executed at most once and the loop makes at most max_iterations
\* iterations; a run in which every executed node succeeded ends FAILED
\* with the iteration-cap error when the loop made max_iterations
\* iterations and COMPLETED otherwise.
C10_NoTerminalNodeRunsEachNodeOnce ==
    NoTerminalNode =>
        /\ \A i, j \in DOMAIN node_results :
               node_results[i].node_id = node_results[j].node_id => i = j
        /\ iterations <= max_iterations
        /\ AllSucceeded =>
               IF iterations = max_iterations
               THEN status = FAILED /\ error = MaxIterationsError
               ELSE status = COMPLETED

\* The cycle A -> B -> A has completed, and so has a node looping on itself.
C10_Witness ==
    /\ NoTerminalNode
    /\ AllSucceeded
    /\ status = COMPLETED
    /\ ResultIds = <<"A", "B">>
    /\ Definition("B").next_nodes = <<"A">>

StartPresent ==
    \E i \in DOMAIN workflow.nodes : workflow.nodes[i].id = workflow.start_node

Defined(id) == \E i \in DOMAIN workflow.nodes : workflow.nodes[i].id = id

ReferencesResolved ==
    \A i \in DOMAIN workflow.nodes :
        /\ \A k \in DOMAIN workflow.nodes[i].next_nodes :
               Defined(workflow.nodes[i].next_nodes[k])
        /\ workflow.nodes[i].on_error # NoNode =>
               Defined(workflow.nodes[i].on_error)

UniqueIds ==
    \A i, j \in DOMAIN workflow.nodes :
        workflow.nodes[i].id = workflow.nodes[j].id => i = j

\* C11: validate_workflow returns (True, None) exactly when the start node
\* is a node id, every next_nodes and on_error reference is a node id and
\* the node ids are unique; otherwise it returns False with a message that
\* names an invariant the definition violates (and the node and reference
\* at fault).
C11_ValidateWorkflowDecidesInvariants ==
    validation # NoValidation =>
        /\ validation.ok <=> (StartPresent /\ ReferencesResolved /\ UniqueIds)
        /\ validation.ok => validation = Valid
        /\ validation.kind \in {"none", "start_not_found", "dangling_next",
                                "dangling_handler", "duplicate"}
        /\ validation.kind = "start_not_found" =>
               ~StartPresent /\ validation.ref = workflow.start_node
        /\ validation.kind = "dangling_next" =>
               \E i \in DOMAIN workflow.nodes :
                   /\ workflow.nodes[i].id = validation.node
                   /\ ~Defined(validation.ref)
                   /\ \E k \in DOMAIN workflow.nodes[i].next_nodes :
                          workflow.nodes[i].next_nodes[k] = validation.ref
        /\ validation.kind = "dangling_handler" =>
               \E i \in DOMAIN workflow.nodes :
                   /\ workflow.nodes[i].id = validation.node
                   /\ ~Defined(validation.ref)
                   /\ workflow.nodes[i].on_error = validation.ref
        /\ validation.kind = "duplicate" => ~UniqueIds

\* A definition whose only fault is a dangling error handler was rejected
\* with the message that names the handler.
C11_Witness ==
    /\ validation.kind = "dangling_handler"
    /\ validation.ref = "C"
    /\ StartPresent
    /\ UniqueIds
    /\ Len(workflow.nodes) = 2

\* C12: a run on a definition with a missing start node, a dangling
\* reference or duplicate node ids executes no node and, once returned, is
\* FAILED.
C12_InvalidDefinitionRejected ==
    ( /\ ~(StartPresent /\ ReferencesResolved /\ UniqueIds)
      /\ pc = "returned" ) =>
        /\ status = FAILED
        /\ node_results = <<>>

Terminal == {COMPLETED, FAILED, CANCELLED}

\* C13: whatever methods are called on an Execution State, once its status
\* is COMPLETED, FAILED or CANCELLED no later call changes the status, the
\* end time, the output or the error.
C13_TerminalStatusIsFinal ==
    [][(status \in Terminal) =>
           (UNCHANGED <<status, end_time, output_data, error>>)]_vars

Count(q, id) == Cardinality({k \in DOMAIN q : q[k] = id})

IsPrefix(p, q) == Len(p) <= Len(q) /\ \A k \in DOMAIN p : p[k] = q[k]

\* The step is a call of the method op.
CallOf(op) == last_call'.n # last_call.n /\ last_call'.op = op

\* C15: a call add_pending_nodes(ids) keeps the ids already queued in
\* place, appends nothing but ids of its argument, leaves an id that is
\* executed or already queued as often in the queue as it was, puts any
\* other id of its argument into the queue exactly once however often the
\* argument names it, and would change nothing if it were repeated.
C15_AddPendingNodesIsIdempotent ==
    [][CallOf("add_pending_nodes") =>
        LET ids == last_call'.ids
        IN  /\ IsPrefix(pending_nodes, pending_nodes')
            /\ \A k \in DOMAIN pending_nodes' :
                   k > Len(pending_nodes) => pending_nodes'[k] \in SeqRange(ids)
            /\ \A id \in SeqRange(ids) :
                   Count(pending_nodes', id) =
                       IF id \in executed_nodes \/ Count(pending_nodes, id) > 0
                       THEN Count(pending_nodes, id) ELSE 1
            /\ add_pending_nodes(pending_nodes', executed_nodes, ids) =
                   pending_nodes'
            /\ (UNCHANGED <<executed_nodes, node_results, status>>)]_vars

\* add_pending_nodes(["A", "A"]) on the queue ["B"] left the queue ["B", "A"].
C15_Witness ==
    /\ last_call.op = "add_pending_nodes"
    /\ last_call.ids = <<"A", "A">>
    /\ pending_nodes = <<"B", "A">>
    /\ executed_nodes = {}

\* C16: get_next_node returns the head of the queue and removes it, and
\* returns None and changes nothing when the queue is empty;
\* add_pending_nodes only appends behind the ids already queued, and no
\* other method touches the queue: ids leave the queue in the order in
\* which they entered it.
C16_PendingQueueIsFifo ==
    [][/\ CallOf("get_next_node") =>
              /\ pending_nodes # <<>> =>
                     /\ last_call'.ret = pending_nodes[1]
                     /\ pending_nodes' = Tail(pending_nodes)
              /\ pending_nodes = <<>> =>
                     /\ last_call'.ret = NoNode
                     /\ pending_nodes' = <<>>
              /\ UNCHANGED <<executed_nodes, node_results, status, end_time,
                             output_data, error>>
       /\ CallOf("add_pending_nodes") => IsPrefix(pending_nodes, pending_nodes')
       /\ ~CallOf("get_next_node") /\ ~CallOf("add_pending_nodes") =>
              (UNCHANGED pending_nodes)]_vars

\* "B" and "A" were queued in this order by one call, get_next_node
\* returned "B" and "A" is still queued.
C16_Witness ==
    /\ last_call.op = "get_next_node"
    /\ last_call.ret = "B"
    /\ pending_nodes = <<"A">>
    /\ last_call.n = 2

\* C14: in every state of a run the pending queue holds no executed node
\* id and no id twice, and node_results holds at most one result per node
\* id.
C14_ExecutedNodesNeverRequeued ==
    /\ \A k \in DOMAIN pending_nodes : pending_nodes[k] \notin executed_nodes
    /\ \A k, m \in DOMAIN pending_nodes :
           pending_nodes[k] = pending_nodes[m] => k = m
    /\ \A i, j \in DOMAIN node_results :
           node_results[i].node_id = node_results[j].node_id => i = j
    /\ executed_nodes = {node_results[i].node_id : i \in DOMAIN node_results}
    /\ pc \in {"attempt", "executing", "retry_sleep", "record"} =>
           /\ node_id \notin executed_nodes
           /\ \A k \in DOMAIN pending_nodes : pending_nodes[k] # node_id

\* In a cyclic workflow the node that closes the cycle has run and named
\* the executed start node as its successor, which was not queued again.
C14_Witness ==
    /\ pc = "loop"
    /\ Len(node_results) = 2
    /\ node_results[2].status = "success"
    /\ node_results[2].next_nodes = <<"A">>
    /\ node_results[1].node_id = "A"
    /\ pending_nodes = <<>>

InNode == {"attempt", "executing", "retry_sleep", "record"}

\* C17: the input of the node the engine is executing is the output of
\* the most recently recorded Node Result, a failed node's included, or
\* the run's input when no result is recorded yet; every attempt of the
\* node gets the same input.
C17_NodeInputIsLatestOutput ==
    pc \in InNode =>
        node_input = IF node_results = <<>> THEN input_data
                     ELSE node_results[Len(node_results)].output

\* An error handler is being executed on the output None of the node that
\* failed before it.
C17_Witness ==
    /\ pc = "executing"
    /\ node_results # <<>>
    /\ node_results[Len(node_results)].status = "error"
    /\ node_results[Len(node_results)].next_nodes = <<node_id>>
    /\ node_input = NoneData

\* C18: the workflow-wide timeout can fire whenever the run is suspended
\* in a node (its execute or the wait before a retry); when it fires the
\* run returns FAILED with the 'exceeded maximum time' error, and from
\* then on no node is started and the run's state no longer changes.
C18_WorkflowTimeoutFailsRun ==
    [][/\ (pc \in {"executing", "retry_sleep"}) => ENABLED WorkflowTimeout
       /\ (error'.kind = "timeout" /\ error.kind # "timeout") =>
              /\ pc \in {"executing", "retry_sleep"}
              /\ pc' = "returned"
              /\ status' = FAILED
              /\ error' = WorkflowTimeoutError
              /\ end_time' = clock'
              /\ UNCHANGED <<node_results, executed_nodes, pending_nodes>>
       /\ (error.kind = "timeout") =>
              (UNCHANGED <<pc, status, error, output_data, end_time,
                           node_results, executed_nodes, pending_nodes,
                           iterations, node_id, attempt, result>>)]_vars

\* The timeout fired during the wait before a node's retry, with another
\* node still queued.
C18_Witness ==
    /\ error = WorkflowTimeoutError
    /\ status = FAILED
    /\ pc = "returned"
    /\ result.waits = 0
    /\ result.raised = 1
    /\ pending_nodes # <<>>
    /\ node_results # <<>>

\* C19: the step in which execute_node stores the result of node.run
\* appends that one result, of the node that ran, to node_results and adds
\* the node's id to executed_nodes, whatever the result's status, and
\* changes neither the status nor the pending queue; while node.run is
\* under way execute_node changes none of them.
C19_ExecuteNodeRecordsOneResult ==
    [][/\ (pc = "record" /\ pc' # "record") =>
              /\ node_results' = Append(node_results, result)
              /\ result.node_id = node_id
              /\ executed_nodes' = executed_nodes \cup {node_id}
              /\ UNCHANGED <<status, pending_nodes, error, output_data>>
       /\ (pc \in InNode /\ pc # "record" /\ pc' \in InNode) =>
              (UNCHANGED <<node_results, executed_nodes, status, pending_nodes>>)
      ]_vars


\* C20: while the engine executes a node, no script of another node is
\* running in a worker thread.
C20_OneNodeInProgress ==
    pc \in InNode => workers \subseteq {node_id}

\* C21: once the status of a run is COMPLETED, FAILED or CANCELLED, no
\* step changes its Execution State any more: the status, times, output and
\* error, the node results, the executed set, the pending queue and the
\* shared store stay as they are.
C21_TerminalStateIsImmutable ==
    [][(status \in Terminal) =>
           (UNCHANGED <<status, start_time, end_time, output_data, error,
                        node_results, executed_nodes, pending_nodes,
                        global_state>>)]_vars

\* C22: under any interleaving of two runs, a step of one run changes
\* nothing of the other run: not its status, shared store, pending queue,
\* node results or position.
C22_RunsAreIsolated ==
    [][\A r \in RunIds : \A q \in RunIds \ {r} :
           ConcStep(q) => (runs'[r] = runs[r])]_vars

\* C23: no step of execute_workflow changes the Workflow Definition it was
\* given: every node's next_nodes, on_error and config stay as they were.
C23_DefinitionNeverMutated == [][workflow' = workflow]_vars

\* A run has returned in which a condition node succeeded and bound its
\* instance's next_nodes to a branch that the definition's next_nodes does
\* not list, and in which another node failed.
C23_Witness ==
    /\ pc = "returned"
    /\ \E i \in DOMAIN node_results :
           /\ node_results[i].status = "success"
           /\ Definition(node_results[i].node_id).type = "condition"
           /\ nodes_map[node_results[i].node_id].next_nodes # <<>>
           /\ nodes_map[node_results[i].node_id].next_nodes #
                  Definition(node_results[i].node_id).next_nodes
    /\ \E j \in DOMAIN node_results : node_results[j].status = "error"

\* C24: every node that runs was built by a constructor that accepted its
\* config, so no Node Result is an error raised by validate_config: no
\* attempt of run() fails on configuration validation.
C24_ConstructedNodePassesValidation ==
    \A i \in DOMAIN node_results :
        ~(/\ node_results[i].status = "error"
          /\ node_results[i].error = UnknownTypeMsg)

\* C25: the Node Result of a script node whose script raised has status
\* "error" and carries an error text.
C25_RaisingScriptYieldsErrorResult ==
    \A i \in DOMAIN node_results :
        node_results[i].script = "raised" =>
            /\ node_results[i].status = "error"
            /\ node_results[i].error # ""

\* C26: when the last node of a run is a script node without on_error and
\* without successors, its script raised, nothing is pending and the run
\* has returned without the workflow-wide timeout, the run is COMPLETED and
\* its output carries the script's error marker.
C26_RaisingScriptCompletesRun ==
    LET last == node_results[Len(node_results)]
    IN  ( /\ pc = "returned"
          /\ node_results # <<>>
          /\ last.script = "raised"
          /\ Definition(last.node_id).on_error = NoNode
          /\ Definition(last.node_id).next_nodes = <<>>
          /\ pending_nodes = <<>>
          /\ error.kind # "timeout" ) =>
            /\ status = COMPLETED
            /\ output_data.python_error = "failed"

\* C27: the Node Result of a script node whose script outlasted the node's
\* timeout has status success, its output is the input with the "timeout"
\* error marker, and it names the node's successors.
C27_ScriptTimeoutKeepsNodeAlive ==
    \A i \in DOMAIN node_results :
        node_results[i].script = "timeout" =>
            /\ node_results[i].status = "success"
            /\ node_results[i].output.python_error = "timeout"
            /\ node_results[i].next_nodes =
                   Definition(node_results[i].node_id).next_nodes

\* C28: the Node Result of a generative-text node whose provider could not
\* be obtained or whose generate call failed has status success, and its
\* output is the input with the llm_error marker.
C28_ProviderFailureKeepsNodeAlive ==
    \A i \in DOMAIN node_results :
        node_results[i].provider \in {"unavailable", "failed"} =>
            /\ node_results[i].status = "success"
            /\ node_results[i].output.llm = "error"

C30_ReferenceDelayIsConstructed ==
    (/\ Len(workflow.nodes) = 1
     /\ workflow.nodes[1].type = "delay"
     /\ workflow.nodes[1].config.type = "delay"
     /\ workflow.nodes[1].config.fields = "delay"
     /\ workflow.nodes[1].config.seconds \in {"reference", "zero"}) =>
        /\ pc # "raised"
        /\ pc = "returned" =>
               /\ Len(node_results) = 1
               /\ node_results[1].status = "success"

C32_HttpFailureFailsTheNode ==
    \A i \in DOMAIN node_results :
        LET r == node_results[i]
            d == Definition(r.node_id)
            handled == i < Len(node_results) \/ pc # "handle"
        IN  (/\ d.type = "http_request"
             /\ r.attempts >= 1
             /\ r.raised = r.attempts
             /\ r.last_failure \in {"request failed", "Unsupported HTTP method"}) =>
                /\ r.status = "error"
                /\ r.error = r.last_failure
                /\ r.attempts = d.config.retries + 1
                /\ (handled /\ d.on_error # NoNode) =>
                       \/ d.on_error \in executed_nodes
                       \/ \E k \in DOMAIN pending_nodes :
                              pending_nodes[k] = d.on_error
                       \/ node_id = d.on_error
                /\ (handled /\ d.on_error = NoNode) =>
                       /\ pc = "returned"
                       /\ status = FAILED
                       /\ error = NodeFailed(r.node_id, r.error)

\* A network-call node with an unsupported method exhausted MaxRetries
\* retries and its handler ran after it.
C32_Witness ==
    /\ pc = "returned"
    /\ Len(node_results) = 2
    /\ node_results[1].last_failure = "Unsupported HTTP method"
    /\ node_results[1].raised = MaxRetries + 1
    /\ node_results[1].status = "error"
    /\ node_results[2].node_id = Definition(node_results[1].node_id).on_error

\* C33: a delay node whose config is valid (seconds > 0) and has no
\* "timeout" never times out: none of its results records a timed-out
\* attempt, and on a dict input its result is a success that carries the
\* delay metadata.
C33_DelayNeverTimesOut ==
    \A i \in DOMAIN node_results :
        LET r == node_results[i]
            d == Definition(r.node_id)
        IN  (/\ d.type = "delay"
             /\ d.config.type = "delay"
             /\ SchemaAccepts("delay", d.config)
             /\ ~d.config.timeout) =>
                /\ r.timed_out = 0
                /\ i = 1 => r.status = "success" /\ r.output.delay_info = r.node_id

\* C34: a run fails with the iteration-cap error only while nodes are still
\* pending: a run whose queue is empty after its last iteration, every
\* executed node having succeeded, ends COMPLETED.
C34_CapFailureNeedsPendingNodes ==
    /\ (pc = "returned" /\ error = MaxIterationsError) => pending_nodes # <<>>
    /\ (AllSucceeded /\ pending_nodes = <<>>) => status = COMPLETED

\* C35: every Node Result with status success has no error, also when the
\* node succeeded after failed attempts.
C35_SuccessResultHasNoError ==
    \A i \in DOMAIN node_results :
        node_results[i].status = "success" => node_results[i].error = ""

\* C36: every Node Result comes from at least one attempt, whatever the
\* node's retries, and a result with status success from an attempt that
\* returned an output.
C36_ResultHasAnAttempt ==
    \A i \in DOMAIN node_results :
        LET r == node_results[i]
        IN  /\ r.attempts >= 1
            /\ r.status = "success" => r.raised + r.timed_out < r.attempts

\* C37: once a Node Result is recorded its output does not change, and
\* from the start of the run on neither does the run's input_data, whatever
\* the nodes executed later do with the input they are given.
C37_RecordedDataNeverChanges ==
    [][/\ \A i \in DOMAIN node_results :
              node_results'[i].output = node_results[i].output
       /\ input_data' = input_data]_vars

\* C38: when a run has reached a terminal status, the node the loop popped
\* last and found in the node map, like every node popped before it, has a
\* Node Result and is in executed_nodes, also after the workflow-wide
\* timeout.
C38_PoppedNodeHasResult ==
    (pc = "returned" /\ node_id # NoNode) =>
        /\ node_id \in executed_nodes
        /\ \E i \in DOMAIN node_results : node_results[i].node_id = node_id

\* C39: after any sequence of create and update requests the stored
\* definition passes validate_workflow, and so does every definition the
\* execute endpoint hands to engine.execute_workflow.
C39_StoredWorkflowIsValid ==
    /\ stored.exists => validate_workflow(model_to_response(stored)).ok
    /\ (api_call.op = "execute" /\ api_call.code \in {200, 500}) =>
           validate_workflow(api_call.workflow).ok


====
